---- MODULE Spec2Model ----
(***************************************************************************)
(* Model of the michi_matome_crawler acquisition pipeline:                 *)
(*   src/src/db.rs    the three SQLite tables and their statements         *)
(*   src/src/blog.rs  sitemap-first crawl with BFS fallback                *)
(*   src/src/main.rs  the sequential loop over the configured blogs        *)
(*                                                                         *)
(* Tables are sequences of rows in rowid order.  Option<T> is a sequence   *)
(* of length 0 (None / SQL NULL) or 1 (Some).  Time is counted in days.    *)
(***************************************************************************)
EXTENDS Integers, Sequences, FiniteSets, TLC

VARIABLES contents,      \* table contents
          crawl_queue,   \* table crawl_queue
          error_sites,   \* table error_sites
          now,           \* the wall clock read by Utc::now() / datetime('now')
          last,          \* the most recent call and what it returned
          pc,            \* position of the single worker
          site,          \* index into config.blogs of the current blog
          urls,          \* fetch_and_store: the sitemap URL list
          idx,           \* fetch_and_store: position of the for loop in urls
          counter,       \* fetch_and_store: counter
          fetched_at,    \* the `now` string taken at the start of a crawl
          new_count,     \* crawl_html: new_count
          targets,       \* crawl_html: the rest of the batch being visited
          acquired,      \* URLs handed to crawl_article at blog.rs:34, in order
          fetched,       \* HTTP GETs issued for the current blog
          inserted,      \* ids newly inserted for the current blog
          faults,        \* responses so far that were not a plain 200 text/html
          down           \* URLs whose server fails every request of this run

dbvars == <<contents, crawl_queue, error_sites>>
crawlvars == <<pc, site, urls, idx, counter, fetched_at, new_count,
               targets, acquired, fetched, inserted, faults, down>>
vars == <<contents, crawl_queue, error_sites, now, last, pc, site, urls,
          idx, counter, fetched_at, new_count, targets, acquired, fetched,
          inserted, faults, down>>

(***************************************************************************)
(* Bounds of the model                                                     *)
(***************************************************************************)
MaxTime == 8        \* the clock stops advancing after this many days
MaxQueueTime == 1   \* the same, for the crawl_queue call sequences
MaxElapsed == 1     \* days that pass during one process run
MaxFaults == 1      \* responses that are not a plain 200 text/html

(***************************************************************************)
(* Program constants                                                       *)
(***************************************************************************)
MAX_NEW_PER_SITE == 5
RETRY_DAYS == 7
PENDING_LIMIT == 10

None == <<>>
Some(v) == <<v>>

Range(s) == {s[i] : i \in DOMAIN s}

Min(a, b) == IF a < b THEN a ELSE b

(***************************************************************************)
(* Strings that hold URLs.  scheme = "" is text that Url::parse rejects;   *)
(* host = "" is a URL without a host.                                      *)
(***************************************************************************)
U(host, path) == [scheme |-> "https", host |-> host, path |-> path]

(***************************************************************************)
(* Timestamps as text.  to_rfc3339 keeps the instant and writes the UTC    *)
(* offset; parse_from_rfc3339(..).with_timezone(&Utc) reads it back.       *)
(* datetime('now') is SQLite's own text form.                              *)
(***************************************************************************)
to_rfc3339(t) == [local |-> t, offset |-> 0]

parse_from_rfc3339(s) == s.local - s.offset

datetime(t) == [sqlite |-> t]

(***************************************************************************)
(* db.rs: contents                                                         *)
(***************************************************************************)
HasId(c, id) == \E i \in DOMAIN c : c[i].id = id

RowOf(c, id) == c[CHOOSE i \in DOMAIN c : c[i].id = id]

\* INSERT OR REPLACE in place of INSERT OR IGNORE
insert_replace(c, id, content_type, title, url, description, thumbnail, published_at, f_at) ==
    LET row == [id |-> id, type |-> content_type, title |-> title, url |-> url,
                description |-> description, thumbnail |-> thumbnail,
                published_at |-> published_at, fetched_at |-> f_at]
    IN  [table |-> Append(SelectSeq(c, LAMBDA r : r.id # id), row), ret |-> TRUE]

insert(c, id, content_type, title, url, description, thumbnail, published_at, f_at) ==
    LET row == [id |-> id, type |-> content_type, title |-> title, url |-> url,
                description |-> description, thumbnail |-> thumbnail,
                published_at |-> published_at, fetched_at |-> f_at]
        affected == IF HasId(c, id) THEN 0 ELSE 1
    IN  [table |-> IF affected = 1 THEN Append(c, row) ELSE c,
         ret |-> affected > 0]

(***************************************************************************)
(* db.rs: error_sites                                                      *)
(***************************************************************************)
HasSite(e, s) == \E i \in DOMAIN e : e[i].site = s

ErrorOf(e, s) == e[CHOOSE i \in DOMAIN e : e[i].site = s]

\* retry_after computed without the retry_days offset
register_error_nowindow(e, s, message, retry_days, t) ==
    LET row == [site |-> s, last_error_at |-> to_rfc3339(t),
                retry_after |-> to_rfc3339(t), error_message |-> Some(message)]
    IN  IF HasSite(e, s)
        THEN [i \in DOMAIN e |-> IF e[i].site = s THEN row ELSE e[i]]
        ELSE Append(e, row)

\* INSERT OR IGNORE in place of ON CONFLICT DO UPDATE: the first record stays
register_error_ignore(e, s, message, retry_days, t) ==
    LET row == [site |-> s, last_error_at |-> to_rfc3339(t),
                retry_after |-> to_rfc3339(t + retry_days),
                error_message |-> Some(message)]
    IN  IF HasSite(e, s) THEN e ELSE Append(e, row)

register_error(e, s, message, retry_days, t) ==
    LET retry_after == t + retry_days
        row == [site |-> s, last_error_at |-> to_rfc3339(t),
                retry_after |-> to_rfc3339(retry_after),
                error_message |-> Some(message)]
    IN  IF HasSite(e, s)
        THEN [i \in DOMAIN e |-> IF e[i].site = s THEN row ELSE e[i]]
        ELSE Append(e, row)

\* the comparison written as <= instead of <
should_skip_inclusive(e, s, t) ==
    /\ HasSite(e, s)
    /\ t <= parse_from_rfc3339(ErrorOf(e, s).retry_after)

should_skip(e, s, t) ==
    /\ HasSite(e, s)
    /\ t < parse_from_rfc3339(ErrorOf(e, s).retry_after)

(***************************************************************************)
(* db.rs: crawl_queue                                                      *)
(***************************************************************************)
HasUrl(q, u) == \E i \in DOMAIN q : q[i].url = u

EntryOf(q, u) == q[CHOOSE i \in DOMAIN q : q[i].url = u]

\* an upsert that resets the entry in place of INSERT OR IGNORE
enqueue_reset(q, u, parent, t) ==
    LET row == [url |-> u, parent_url |-> parent, status |-> "pending",
                discovered_at |-> datetime(t), fetched_at |-> None,
                retry_count |-> 0, next_retry_at |-> None]
    IN  [table |-> IF HasUrl(q, u)
                   THEN [i \in DOMAIN q |-> IF q[i].url = u THEN row ELSE q[i]]
                   ELSE Append(q, row),
         ret |-> ~HasUrl(q, u)]

enqueue(q, u, parent, t) ==
    LET row == [url |-> u, parent_url |-> parent, status |-> "pending",
                discovered_at |-> datetime(t), fetched_at |-> None,
                retry_count |-> 0, next_retry_at |-> None]
        rows == IF HasUrl(q, u) THEN 0 ELSE 1
    IN  [table |-> IF rows = 1 THEN Append(q, row) ELSE q,
         ret |-> rows > 0]

\* an upsert in place of the UPDATE: an absent url gets a done row
mark_done_upsert(q, u, t) ==
    IF \E i \in DOMAIN q : q[i].url = u
    THEN [i \in DOMAIN q |->
            IF q[i].url = u
            THEN [q[i] EXCEPT !.status = "done", !.fetched_at = Some(datetime(t))]
            ELSE q[i]]
    ELSE Append(q, [url |-> u, parent_url |-> None, status |-> "done",
                    discovered_at |-> datetime(t), fetched_at |-> Some(datetime(t)),
                    retry_count |-> 0, next_retry_at |-> None])

mark_done(q, u, t) ==
    [i \in DOMAIN q |->
        IF q[i].url = u
        THEN [q[i] EXCEPT !.status = "done", !.fetched_at = Some(datetime(t))]
        ELSE q[i]]

\* the WHERE clause of next_pending
Selected(row, t) ==
    /\ row.status = "pending"
    /\ \/ row.next_retry_at = None
       \/ row.next_retry_at[1].sqlite <= datetime(t).sqlite

Urls(rows) == [i \in DOMAIN rows |-> rows[i].url]

\* the WHERE clause without the status test
next_pending_anystatus(q, limit, t) ==
    Urls(SubSeq(q, 1, Min(limit, Len(q))))

\* The statement has no ORDER BY; SQLite walks the table (or idx_crawl_status)
\* in rowid order, so the result is the first `limit` selected rows in the
\* order of their insertion.
next_pending(q, limit, t) ==
    LET sel == SelectSeq(q, LAMBDA row : Selected(row, t))
    IN  Urls(SubSeq(sel, 1, Min(limit, Len(sel))))

(***************************************************************************)
(* blog.rs: URLs.  A path is its sequence of segments.                     *)
(***************************************************************************)
IpHosts == {"10.0.0.1", "10.0.0.2"}
YearSegments == {"2024"}
HtmlSegments == {"f.html"}

\* Url::parse(..).ok(): None for text that is not an absolute URL
UrlParse(s) == IF s.scheme = "" THEN None ELSE Some(s)

\* Url::domain(): the host when it is a DNS name, None for an IP address
\* and for a URL without a host
domain(u) == IF u.host = "" \/ u.host \in IpHosts THEN None ELSE Some(u.host)

is_article_link(href) ==
    \/ \E i \in DOMAIN href.path : href.path[i] \in YearSegments
    \/ Len(href.path) > 0 /\ href.path[Len(href.path)] \in HtmlSegments

same_domain(base, target) ==
    LET base_url == UrlParse(base)
        target_url == UrlParse(target)
    IN  IF base_url # None /\ target_url # None
        THEN domain(base_url[1]) = domain(target_url[1])
        ELSE FALSE

\* The href attribute of an anchor:
\*   abs    an absolute URL                 https://h/p, mailto:..
\*   net    a protocol-relative reference   //h/p
\*   root   a path-absolute reference       /p
\*   rel    a path-relative reference       p
\*   bad    a reference that Url::join rejects
Href(kind, scheme, host, path) == [kind |-> kind, scheme |-> scheme, host |-> host, path |-> path]

HrefText(href) == [scheme |-> IF href.kind = "abs" THEN href.scheme ELSE "",
                   host |-> href.host, path |-> href.path]

Dir(path) == IF path = <<>> THEN <<>> ELSE SubSeq(path, 1, Len(path) - 1)

normalize_url(base, href) ==
    IF UrlParse(base) = None THEN HrefText(href)
    ELSE CASE href.kind = "abs"  -> [scheme |-> href.scheme, host |-> href.host, path |-> href.path]
           [] href.kind = "net"  -> [scheme |-> base.scheme, host |-> href.host, path |-> href.path]
           [] href.kind = "root" -> [scheme |-> base.scheme, host |-> base.host, path |-> href.path]
           [] href.kind = "rel"  -> [scheme |-> base.scheme, host |-> base.host,
                                     path |-> Dir(base.path) \o href.path]
           [] OTHER              -> HrefText(href)

(***************************************************************************)
(* The web the crawler runs against: two configured blogs, the documents   *)
(* their pages hold, and the sitemap bodies their servers may return.      *)
(***************************************************************************)
Blogs == <<U("x", <<>>), U("y", <<>>), U("x", <<>>)>>

Abs(host, path) == Href("abs", "https", host, path)

Doc(title, description, hrefs) == [title |-> title, description |-> description, hrefs |-> hrefs]

BackToRoot == <<Href("root", "", "", <<>>)>>

Page(u) ==
    CASE u = U("x", <<>>) ->
            Doc(Some("X"), Some("D"),
                <<Href("root", "", "", <<"a">>), Href("rel", "", "", <<"b">>),
                  Href("net", "", "x", <<"c">>),
                  Abs("x", <<"2024", "e">>), Abs("x", <<"f.html">>),
                  Abs("x", <<"a">>), Abs("y", <<"r">>),
                  Href("abs", "mailto", "", <<"me">>), Href("bad", "", "", <<"[">>)>>)
      [] u = U("x", <<"a">>) -> Doc(None, None, BackToRoot \o <<Abs("x", <<"b">>)>>)
      [] u = U("y", <<>>) ->
            Doc(Some("Y"), None, <<Href("root", "", "", <<"r">>), Abs("x", <<"a">>)>>)
      [] u = U("10.0.0.1", <<>>) ->
            Doc(Some("IP"), None,
                <<Href("rel", "", "", <<"q">>), Href("abs", "mailto", "", <<"me">>),
                  Abs("10.0.0.2", <<"p">>), Abs("x", <<"a">>)>>)
      [] u.host \in {"x", "y"} /\ u.scheme = "https" -> Doc(Some("T"), None, BackToRoot)
      [] OTHER -> Doc(None, None, <<>>)

\* quick_xml events of a sitemap body; Eof is the end of the sequence
Ev(t, name, text) == [t |-> t, name |-> name, text |-> text]
Start(name) == Ev("Start", name, U("", <<>>))
End(name) == Ev("End", name, U("", <<>>))
Text(u) == Ev("Text", "", u)
XmlErr == Ev("Err", "", U("", <<>>))
Loc(u) == <<Start("url"), Start("loc"), Text(u), End("loc"), End("url")>>
UrlSet(body) == <<Start("urlset")>> \o body \o <<End("urlset")>>

Sm(n) == U("x", <<"s", n>>)

DocAB == UrlSet(Loc(U("x", <<"a">>)) \o Loc(U("x", <<"b">>)))
DocTen == UrlSet(Loc(Sm("1")) \o Loc(Sm("2")) \o Loc(Sm("3")) \o Loc(Sm("4")) \o Loc(Sm("5"))
                 \o Loc(Sm("6")) \o Loc(Sm("7")) \o Loc(Sm("8")) \o Loc(Sm("9")) \o Loc(Sm("10")))
DocDup == UrlSet(Loc(Sm("1")) \o Loc(Sm("1")) \o Loc(U("x", <<"a">>)) \o Loc(Sm("2"))
                 \o Loc(Sm("3")) \o Loc(Sm("4")) \o Loc(Sm("5")) \o Loc(Sm("6")))
DocEmpty == UrlSet(<<Start("url"), Text(U("x", <<"a">>)), End("url")>>)
DocCut == <<Start("urlset")>> \o Loc(U("x", <<"a">>)) \o <<XmlErr>> \o Loc(U("x", <<"b">>))
DocBroken == <<XmlErr>> \o Loc(U("x", <<"a">>))
DocY == UrlSet(Loc(U("y", <<"r">>)))

SitemapBodies(i) ==
    IF i = 1 THEN {DocAB, DocTen, DocDup, DocEmpty, DocCut, DocBroken}
    ELSE IF i = 2 THEN {DocY, DocEmpty}
    ELSE {DocAB, DocEmpty}

\* A response to a GET: a transport error, or a status with headers and body
Resp(kind, code, ct, doc) == [kind |-> kind, code |-> code, ct |-> ct, doc |-> doc]
NoDoc == Doc(None, None, <<>>)
NoResp == Resp("none", 0, "", NoDoc)
TransportError == Resp("transport", 0, "", NoDoc)
Status(code) == Resp("http", code, "text/html", NoDoc)
Ok(ct, doc) == Resp("http", 200, ct, doc)

is_success(resp) == resp.code >= 200 /\ resp.code < 300

ArticleFaults == {TransportError, Status(404), Status(500)}

PageFaults(u) == {TransportError, Status(500), Ok("image/png", Page(u)),
                  Ok("", Page(u)), Ok("invalid", Page(u))}

(***************************************************************************)
(* blog.rs: fetch_sitemap                                                  *)
(***************************************************************************)
\* the URLs collected in reverse
RECURSIVE read_events_reversed(_, _, _, _)
read_events_reversed(body, i, inside_loc, acc) ==
    IF i > Len(body) THEN acc
    ELSE IF body[i].t = "Start" /\ body[i].name = "loc"
         THEN read_events_reversed(body, i + 1, TRUE, acc)
    ELSE IF body[i].t = "Text" /\ inside_loc
         THEN read_events_reversed(body, i + 1, inside_loc, <<body[i].text>> \o acc)
    ELSE IF body[i].t = "End" /\ body[i].name = "loc"
         THEN read_events_reversed(body, i + 1, FALSE, acc)
    ELSE IF body[i].t = "Err" THEN acc
    ELSE read_events_reversed(body, i + 1, inside_loc, acc)

RECURSIVE read_events(_, _, _, _)
read_events(body, i, inside_loc, acc) ==
    IF i > Len(body) THEN acc
    ELSE IF body[i].t = "Start" /\ body[i].name = "loc"
         THEN read_events(body, i + 1, TRUE, acc)
    ELSE IF body[i].t = "Text" /\ inside_loc
         THEN read_events(body, i + 1, inside_loc, Append(acc, body[i].text))
    ELSE IF body[i].t = "End" /\ body[i].name = "loc"
         THEN read_events(body, i + 1, FALSE, acc)
    ELSE IF body[i].t = "Err" THEN acc
    ELSE read_events(body, i + 1, inside_loc, acc)

\* the empty list returned as a success
fetch_sitemap_noempty(resp) ==
    IF resp.kind = "transport" THEN [ok |-> FALSE, urls |-> <<>>]
    ELSE [ok |-> TRUE, urls |-> read_events(resp.body, 1, FALSE, <<>>)]

\* resp is a transport error or a body; the status is not looked at
fetch_sitemap(resp) ==
    IF resp.kind = "transport" THEN [ok |-> FALSE, urls |-> <<>>]
    ELSE LET found == read_events(resp.body, 1, FALSE, <<>>)
         IN  IF found = <<>> THEN [ok |-> FALSE, urls |-> <<>>]
             ELSE [ok |-> TRUE, urls |-> found]

(***************************************************************************)
(* blog.rs: crawl_page                                                     *)
(***************************************************************************)
RECURSIVE select_anchors(_, _, _, _, _, _)
select_anchors(q, url, hrefs, i, added, t) ==
    IF i > Len(hrefs) THEN [table |-> q, added |-> added]
    ELSE LET next_url == normalize_url(url, hrefs[i])
         IN  IF ~same_domain(url, next_url)
             THEN select_anchors(q, url, hrefs, i + 1, added, t)
             ELSE \* r and n are bound as values, so each enqueue is evaluated once
                  CHOOSE rest \in
                     {select_anchors(r.table, url, hrefs, i + 1,
                                     IF r.ret THEN n + 1 ELSE n, t) :
                        r \in {enqueue(q, next_url, Some(url), t)}, n \in {added}} : TRUE

crawl_page(q, url, resp, t) ==
    IF resp.kind = "transport" THEN [ok |-> FALSE, added |-> 0, table |-> q]
    ELSE IF ~is_success(resp) THEN [ok |-> FALSE, added |-> 0, table |-> q]
    ELSE IF resp.ct = "invalid" THEN [ok |-> FALSE, added |-> 0, table |-> q]
    ELSE IF resp.ct # "" /\ resp.ct # "text/html" THEN [ok |-> TRUE, added |-> 0, table |-> q]
    ELSE IF resp.ct = "" /\ ~is_article_link(url) THEN [ok |-> TRUE, added |-> 0, table |-> q]
    ELSE LET r == select_anchors(q, url, resp.doc.hrefs, 1, 0, t)
         IN  [ok |-> TRUE, added |-> r.added, table |-> r.table]

(***************************************************************************)
(* blog.rs: crawl_article with fetch_html.  ret is the Result<bool>;       *)
(* fetch tells whether the GET was issued.                                 *)
(***************************************************************************)
Acq(c, e, ret, fetch) == [contents |-> c, error_sites |-> e, ret |-> ret, fetch |-> fetch]

\* the backoff test left out
crawl_article_noskip(c, e, url, f_at, ignore_skip, resp, t) ==
    IF resp.kind # "http" THEN Acq(c, e, "Err", TRUE)
    ELSE IF ~is_success(resp)
         THEN Acq(c, IF resp.code = 404 THEN register_error(e, url, "404", RETRY_DAYS, t) ELSE e,
                  "Err", TRUE)
    ELSE LET title == IF resp.doc.title = None THEN "No Title" ELSE resp.doc.title[1]
             r == insert(c, url, "blog", title, url, resp.doc.description, None, None, f_at)
         IN  Acq(r.table, e, IF r.ret THEN "Ok(true)" ELSE "Ok(false)", TRUE)

\* every failed fetch registers the backoff
crawl_article_allfail(c, e, url, f_at, ignore_skip, resp, t) ==
    IF should_skip(e, url, t) /\ ~ignore_skip THEN Acq(c, e, "Ok(false)", FALSE)
    ELSE IF resp.kind # "http" \/ ~is_success(resp)
         THEN Acq(c, register_error(e, url, "404", RETRY_DAYS, t), "Err", TRUE)
    ELSE LET title == IF resp.doc.title = None THEN "No Title" ELSE resp.doc.title[1]
             r == insert(c, url, "blog", title, url, resp.doc.description, None, None, f_at)
         IN  Acq(r.table, e, IF r.ret THEN "Ok(true)" ELSE "Ok(false)", TRUE)

crawl_article(c, e, url, f_at, ignore_skip, resp, t) ==
    IF should_skip(e, url, t) /\ ~ignore_skip THEN Acq(c, e, "Ok(false)", FALSE)
    ELSE IF resp.kind # "http" THEN Acq(c, e, "Err", TRUE)
    ELSE IF ~is_success(resp)
         THEN Acq(c, IF resp.code = 404 THEN register_error(e, url, "404", RETRY_DAYS, t) ELSE e,
                  "Err", TRUE)
    ELSE LET title == IF resp.doc.title = None THEN "No Title" ELSE resp.doc.title[1]
             r == insert(c, url, "blog", title, url, resp.doc.description, None, None, f_at)
         IN  Acq(r.table, e, IF r.ret THEN "Ok(true)" ELSE "Ok(false)", TRUE)

\* the responses a GET for url may get: none when no GET is issued
Answers(skip, ok, faulty) == IF skip THEN {NoResp} ELSE ok \cup faulty

IsFault(resp) ==
    /\ resp.kind # "none"
    /\ resp.kind = "transport" \/ resp.code # 200 \/ resp.ct # "text/html"

Cost(resp) == IF IsFault(resp) THEN 1 ELSE 0

(***************************************************************************)
(* The state after db::init on a fresh database, before the blog loop      *)
(***************************************************************************)
Init ==
    /\ contents = <<>>
    /\ crawl_queue = <<>>
    /\ error_sites = <<>>
    /\ now = 0
    /\ last = [op |-> "init"]
    /\ pc = "main"
    /\ site = 1
    /\ urls = <<>>
    /\ idx = 0
    /\ counter = 0
    /\ fetched_at = to_rfc3339(0)
    /\ new_count = 0
    /\ targets = <<>>
    /\ acquired = <<>>
    /\ fetched = {}
    /\ inserted = {}
    /\ faults = 0
    /\ down = {}

(***************************************************************************)
(* Call sequences on the db.rs functions: any caller, any arguments        *)
(***************************************************************************)
ApiUrls == {U("x", <<>>), U("x", <<"a">>), U("y", <<>>)}
ApiTitles == {"No Title", "T"}
ApiDescriptions == {None, Some("D")}
ApiFetchedAt == {to_rfc3339(0), to_rfc3339(1)}
ApiParents == {None, Some(U("x", <<>>))}
ApiLimits == {1, PENDING_LIMIT}
ApiKeys == {U("x", <<>>), U("x", <<"a">>)}
ApiMessages == {"404", "500"}
ApiRetryDays == {1, RETRY_DAYS}

ApiInsert ==
    /\ \E id \in ApiUrls, title \in ApiTitles, d \in ApiDescriptions, f \in ApiFetchedAt :
          LET r == insert(contents, id, "blog", title, id, d, None, None, f)
          IN  /\ contents' = r.table
              /\ last' = [op |-> "insert", id |-> id, ret |-> r.ret]
    /\ UNCHANGED <<crawl_queue, error_sites, now, crawlvars>>

NextContent == ApiInsert

SpecContent == Init /\ [][NextContent]_vars

ApiEnqueue ==
    /\ \E u \in ApiUrls, parent \in ApiParents :
          LET r == enqueue(crawl_queue, u, parent, now)
          IN  /\ crawl_queue' = r.table
              /\ last' = [op |-> "enqueue", url |-> u, parent |-> parent, ret |-> r.ret]
    /\ UNCHANGED <<contents, error_sites, now, crawlvars>>

ApiMarkDone ==
    /\ \E u \in ApiUrls :
          /\ crawl_queue' = mark_done(crawl_queue, u, now)
          /\ last' = [op |-> "mark_done", url |-> u]
    /\ UNCHANGED <<contents, error_sites, now, crawlvars>>

ApiNextPending ==
    /\ \E limit \in ApiLimits :
          last' = [op |-> "next_pending", limit |-> limit,
                   result |-> next_pending(crawl_queue, limit, now)]
    /\ UNCHANGED <<dbvars, now, crawlvars>>

QueueTick ==
    /\ now < MaxQueueTime
    /\ now' = now + 1
    /\ last' = [op |-> "tick"]
    /\ UNCHANGED <<dbvars, crawlvars>>

NextQueue == ApiEnqueue \/ ApiMarkDone \/ ApiNextPending \/ QueueTick

SpecQueue == Init /\ [][NextQueue]_vars

ApiRegisterError ==
    /\ \E s \in ApiKeys, m \in ApiMessages, d \in ApiRetryDays :
          /\ error_sites' = register_error(error_sites, s, m, d, now)
          /\ last' = [op |-> "register_error", site |-> s, message |-> m, retry_days |-> d]
    /\ UNCHANGED <<contents, crawl_queue, now, crawlvars>>

ApiShouldSkip ==
    /\ \E s \in ApiKeys :
          last' = [op |-> "should_skip", site |-> s, ret |-> should_skip(error_sites, s, now)]
    /\ UNCHANGED <<dbvars, now, crawlvars>>

Tick ==
    /\ now < MaxTime
    /\ now' = now + 1
    /\ last' = [op |-> "tick"]
    /\ UNCHANGED <<dbvars, crawlvars>>

NextBackoff == ApiRegisterError \/ ApiShouldSkip \/ Tick

SpecBackoff == Init /\ [][NextBackoff]_vars

IsCall(name) == last'.op = name /\ <<last, dbvars>>' # <<last, dbvars>>

(***************************************************************************)
(* C1: the contents table never holds two rows with the same id; an insert *)
(* returns true exactly when the id was absent, then adds that one row     *)
(* with the values given, and otherwise returns false and changes nothing. *)
(***************************************************************************)
C1_InsertIfAbsent ==
    /\ [](\A i, j \in DOMAIN contents : contents[i].id = contents[j].id => i = j)
    /\ [][IsCall("insert") =>
            /\ last'.ret = ~HasId(contents, last'.id)
            /\ last'.ret => /\ Len(contents') = Len(contents) + 1
                            /\ SubSeq(contents', 1, Len(contents)) = contents
                            /\ contents'[Len(contents')].id = last'.id
            /\ ~last'.ret => contents' = contents]_vars

C1_Witness ==
    /\ last.op = "insert"
    /\ last.ret = FALSE
    /\ Len(contents) >= 2
    /\ \E f \in ApiFetchedAt : RowOf(contents, last.id).fetched_at # f

(***************************************************************************)
(* C2: the crawl_queue never holds two rows with the same url; an enqueue  *)
(* returns true exactly when the url was absent, then adds one pending row *)
(* with the given parent, and otherwise returns false and changes nothing. *)
(***************************************************************************)
C2_EnqueueIdempotent ==
    /\ [](\A i, j \in DOMAIN crawl_queue :
              crawl_queue[i].url = crawl_queue[j].url => i = j)
    /\ [][IsCall("enqueue") =>
            /\ last'.ret = ~HasUrl(crawl_queue, last'.url)
            /\ last'.ret => /\ Len(crawl_queue') = Len(crawl_queue) + 1
                            /\ SubSeq(crawl_queue', 1, Len(crawl_queue)) = crawl_queue
                            /\ EntryOf(crawl_queue', last'.url).status = "pending"
                            /\ EntryOf(crawl_queue', last'.url).parent_url = last'.parent
            /\ ~last'.ret => crawl_queue' = crawl_queue]_vars

C2_Witness ==
    /\ last.op = "enqueue"
    /\ last.ret = FALSE
    /\ EntryOf(crawl_queue, last.url).status = "done"
    /\ EntryOf(crawl_queue, last.url).parent_url # last.parent

(***************************************************************************)
(* C3: register_error stamps last_error_at = now and retry_after = now +   *)
(* retry_days; should_skip(key) is true exactly when key has a record and  *)
(* now is strictly before its retry_after, so after a 7-day registration   *)
(* it is true on days 0..6 after it and false from day 7 on.               *)
(***************************************************************************)
C3_BackoffWindow ==
    /\ [][IsCall("register_error") =>
            /\ HasSite(error_sites', last'.site)
            /\ ErrorOf(error_sites', last'.site).last_error_at.local = now
            /\ ErrorOf(error_sites', last'.site).retry_after.local = now + last'.retry_days]_vars
    /\ [](last.op = "should_skip" =>
            last.ret = (/\ HasSite(error_sites, last.site)
                        /\ now < ErrorOf(error_sites, last.site).retry_after.local))

C3_Witness ==
    /\ last.op = "should_skip"
    /\ last.ret = FALSE
    /\ HasSite(error_sites, last.site)
    /\ ErrorOf(error_sites, last.site).retry_after.local
           = ErrorOf(error_sites, last.site).last_error_at.local + RETRY_DAYS
    /\ now = ErrorOf(error_sites, last.site).retry_after.local

IsDone(q, u) == HasUrl(q, u) /\ EntryOf(q, u).status = "done"

(***************************************************************************)
(* C8: an entry that is done stays done, whatever is called afterwards,    *)
(* and next_pending returns only urls whose entry is pending.              *)
(***************************************************************************)
C8_StatusMonotone ==
    /\ [][\A u \in ApiUrls : IsDone(crawl_queue, u) => IsDone(crawl_queue', u)]_vars
    /\ [](last.op = "next_pending" =>
            \A u \in Range(last.result) :
                HasUrl(crawl_queue, u) /\ EntryOf(crawl_queue, u).status = "pending")

C8_Witness ==
    /\ last.op = "next_pending"
    /\ last.result # <<>>
    /\ \E u \in ApiUrls : IsDone(crawl_queue, u)

(***************************************************************************)
(* Call sequences on crawl_article: any url, either value of ignore_skip,  *)
(* any response                                                            *)
(***************************************************************************)
ApiDocs == {Doc(Some("T"), Some("D"), <<>>)}

ApiCrawlArticle ==
    /\ \E url \in ApiKeys, ignore_skip \in BOOLEAN :
       \E resp \in Answers(should_skip(error_sites, url, now) /\ ~ignore_skip,
                           {Ok("text/html", d) : d \in ApiDocs}, ArticleFaults) :
          LET a == crawl_article(contents, error_sites, url, to_rfc3339(0), ignore_skip, resp, now)
          IN  /\ contents' = a.contents
              /\ error_sites' = a.error_sites
              /\ fetched' = IF a.fetch THEN fetched \cup {[url |-> url, via |-> "article"]}
                            ELSE fetched
              /\ last' = [op |-> "crawl_article", url |-> url, ignore_skip |-> ignore_skip,
                          resp |-> resp, ret |-> a.ret, fetch |-> a.fetch]
    /\ UNCHANGED <<crawl_queue, now, pc, site, urls, idx, counter, fetched_at,
                   new_count, targets, acquired, inserted, faults, down>>

NextAcquire == ApiCrawlArticle \/ Tick

SpecAcquire == Init /\ [][NextAcquire]_vars

(***************************************************************************)
(* crawl_page called on the pages of the web, one of them served from an   *)
(* IP address, over the queue that the earlier calls have filled.          *)
(***************************************************************************)
ApiPages == {U("x", <<>>), U("x", <<"a">>), U("y", <<>>), U("10.0.0.1", <<>>)}

ApiCrawlPage ==
    \E url \in ApiPages :
       \E resp \in {Ok("text/html", Page(url))} \cup PageFaults(url) :
          \E p \in {crawl_page(crawl_queue, url, resp, now)} :
             /\ crawl_queue' = p.table
             /\ last' = [op |-> "crawl_page", url |-> url, resp |-> resp.kind,
                         ok |-> p.ok, added |-> p.added]
             /\ UNCHANGED <<contents, error_sites, now, crawlvars>>

NextPage == ApiCrawlPage

SpecPage == Init /\ [][NextPage]_vars

(***************************************************************************)
(* blog.rs: fetch_html, from the headers and the body of a successful      *)
(* response to the text.  A Content-Type value is given by the pieces      *)
(* split("charset=") cuts it into; a body by its byte order mark, by the   *)
(* matches of the charset pattern with the offset at which each ends, and  *)
(* by the encoding chardetng guesses for it.                               *)
(***************************************************************************)
HEAD_LIMIT == 4096

\* str::trim on the labels used here
trim(s) == IF s = " Shift_JIS " THEN "Shift_JIS" ELSE s

\* Encoding::for_label: labels are matched without regard to case
for_label(label) ==
    CASE label \in {"utf-8", "UTF-8", "utf8"}              -> Some("UTF-8")
      [] label \in {"shift_jis", "Shift_JIS", "sjis"}      -> Some("Shift_JIS")
      [] label \in {"euc-jp", "EUC-JP"}                    -> Some("EUC-JP")
      [] OTHER                                             -> None

\* Encoding::decode: a byte order mark at the start of the input decides
\* the decoder, otherwise the encoding it is called on; malformed
\* sequences are replaced, so the call has no error result
decode(encoding, bytes) ==
    [text |-> "String", used |-> IF bytes.bom # "" THEN bytes.bom ELSE encoding]

\* headers.get(CONTENT_TYPE), to_str(), split("charset=").nth(1)
header_charset(headers) ==
    IF ~headers.present \/ ~headers.readable \/ Len(headers.parts) < 2 THEN None
    ELSE Some(headers.parts[2])

\* re.captures on the first HEAD_LIMIT bytes: the leftmost match in them
meta_charset(bytes) ==
    LET head == SelectSeq(bytes.charsets, LAMBDA m : m.end <= Min(bytes.len, HEAD_LIMIT))
    IN  IF head = <<>> THEN None ELSE Some(head[1].label)

Decoded(via, d) == [ok |-> TRUE, via |-> via, used |-> d.used, text |-> d.text]

\* the meta tag consulted before the header
fetch_html_text_metafirst(headers, bytes) ==
    LET h == header_charset(headers)
        m == meta_charset(bytes)
    IN  IF m # None /\ for_label(m[1]) # None
        THEN Decoded("meta", decode(for_label(m[1])[1], bytes))
        ELSE IF h # None /\ for_label(trim(h[1])) # None
        THEN Decoded("header", decode(for_label(trim(h[1]))[1], bytes))
        ELSE Decoded("detect", decode(bytes.guess, bytes))

fetch_html_text(headers, bytes) ==
    LET h == header_charset(headers)
        m == meta_charset(bytes)
    IN  IF h # None /\ for_label(trim(h[1])) # None
        THEN Decoded("header", decode(for_label(trim(h[1]))[1], bytes))
        ELSE IF m # None /\ for_label(m[1]) # None
        THEN Decoded("meta", decode(for_label(m[1])[1], bytes))
        ELSE Decoded("detect", decode(bytes.guess, bytes))

Headers(present, readable, parts) == [present |-> present, readable |-> readable, parts |-> parts]

ContentTypes ==
    {Headers(FALSE, FALSE, <<>>), Headers(TRUE, FALSE, <<>>), Headers(TRUE, TRUE, <<"text/html">>)}
        \cup {Headers(TRUE, TRUE, <<"text/html; ", l>>) :
                 l \in {"utf-8", " Shift_JIS ", "\"utf-8\"", "bogus"}}

Match(end, label) == [end |-> end, label |-> label]

Buffers ==
    [bom : {"", "UTF-8", "UTF-16LE"},
     len : {6000},
     charsets : {<<>>, <<Match(120, "euc-jp")>>, <<Match(5000, "euc-jp")>>,
                 <<Match(120, "bogus"), Match(300, "utf-8")>>,
                 <<Match(200, "sjis"), Match(5000, "utf-8")>>},
     guess : {"windows-1252", "Shift_JIS"}]
        \cup [bom : {""}, len : {0}, charsets : {<<>>}, guess : {"UTF-8"}]

InitDecode ==
    /\ contents = <<>>
    /\ crawl_queue = <<>>
    /\ error_sites = <<>>
    /\ now = 0
    /\ last \in {[op |-> "response", headers |-> h, bytes |-> b] :
                    h \in ContentTypes, b \in Buffers}
    /\ pc = "main"
    /\ site = 1
    /\ urls = <<>>
    /\ idx = 0
    /\ counter = 0
    /\ fetched_at = to_rfc3339(0)
    /\ new_count = 0
    /\ targets = <<>>
    /\ acquired = <<>>
    /\ fetched = {}
    /\ inserted = {}
    /\ faults = 0
    /\ down = {}

FetchHtmlText ==
    /\ last.op = "response"
    /\ last' = [op |-> "fetch_html", headers |-> last.headers, bytes |-> last.bytes,
                result |-> fetch_html_text(last.headers, last.bytes)]
    /\ UNCHANGED <<dbvars, now, crawlvars>>

NextDecode == FetchHtmlText

SpecDecode == InitDecode /\ [][NextDecode]_vars



(***************************************************************************)
(* main.rs and blog.rs: one process run on a fresh database                *)
(***************************************************************************)
\* the test written with > instead of >=
ReachedLimit_after(n) == n > MAX_NEW_PER_SITE

\* blog.rs 45: counter >= MAX_NEW_PER_SITE
ReachedLimit(n) == n >= MAX_NEW_PER_SITE

SitemapUrl(base_url) == [base_url EXCEPT !.path = <<"sitemap.xml">>]

SitemapResp(kind, body) == [kind |-> kind, body |-> body]

SitemapAnswers(i) ==
    {SitemapResp("http", b) : b \in SitemapBodies(i)}
        \cup (IF faults < MaxFaults THEN {SitemapResp("transport", <<>>)} ELSE {})

Faulty(F, spent) == IF faults + spent < MaxFaults THEN F ELSE {}

\* what a server that is down answers: no connection, or a 5xx status
Outage == {TransportError, Status(500)}

PageAnswers(url) ==
    IF url \in down THEN Outage
    ELSE {Ok("text/html", Page(url))} \cup Faulty(PageFaults(url), 0)

ArticleAnswers(url, skip, spent) ==
    IF skip THEN {NoResp}
    ELSE IF url \in down THEN Outage
    ELSE {Ok("text/html", Page(url))} \cup Faulty(ArticleFaults, spent)

\* an outage is not counted among the transient faults
Spent(url, resp) == IF url \in down THEN 0 ELSE Cost(resp)

\* blog.rs 22-32 and main.rs 31-32: the next blog; its sitemap is requested
FetchAndStore ==
    /\ pc = "main"
    /\ site <= Len(Blogs)
    /\ \E resp \in SitemapAnswers(site) :
          LET r == fetch_sitemap(resp)
          IN  /\ pc' = IF r.ok THEN "sitemap" ELSE "crawl_html"
              /\ urls' = r.urls
              /\ idx' = 1
              /\ counter' = 0
              /\ fetched_at' = IF r.ok THEN to_rfc3339(now) ELSE fetched_at
              /\ faults' = faults + (IF resp.kind = "transport" THEN 1 ELSE 0)
              /\ last' = [op |-> "fetch_sitemap", resp |-> resp, ok |-> r.ok]
    /\ acquired' = <<>>
    /\ fetched' = {[url |-> SitemapUrl(Blogs[site]), via |-> "sitemap"]}
    /\ inserted' = {}
    /\ UNCHANGED <<dbvars, now, site, new_count, targets, down>>

\* blog.rs 33-51: one iteration of the loop over the sitemap URLs
SitemapStep ==
    /\ pc = "sitemap"
    /\ LET url == urls[idx]
       IN  \E resp \in ArticleAnswers(url, should_skip(error_sites, url, now), 0) :
              LET a == crawl_article(contents, error_sites, url, fetched_at, FALSE, resp, now)
                  is_new == a.ret = "Ok(true)"
                  c == IF is_new THEN counter + 1 ELSE counter
              IN  /\ contents' = a.contents
                  /\ error_sites' = a.error_sites
                  /\ counter' = c
                  /\ IF ReachedLimit(c) \/ idx = Len(urls)
                     THEN pc' = "main" /\ site' = site + 1 /\ idx' = idx
                     ELSE pc' = pc /\ site' = site /\ idx' = idx + 1
                  /\ acquired' = Append(acquired, [url |-> url, ret |-> a.ret])
                  /\ fetched' = IF a.fetch THEN fetched \cup {[url |-> url, via |-> "article"]}
                                ELSE fetched
                  /\ inserted' = IF is_new THEN inserted \cup {url} ELSE inserted
                  /\ faults' = faults + Spent(url, resp)
                  /\ last' = [op |-> "crawl_article", url |-> url, ignore_skip |-> FALSE,
                              resp |-> resp, ret |-> a.ret, fetch |-> a.fetch]
    /\ UNCHANGED <<crawl_queue, now, urls, fetched_at, new_count, targets, down>>

\* blog.rs 97-105: the fallback starts; the root is put on the queue
CrawlHtmlBegin ==
    /\ pc = "crawl_html"
    /\ fetched_at' = to_rfc3339(now)
    /\ crawl_queue' = enqueue(crawl_queue, Blogs[site], None, now).table
    /\ new_count' = 0
    /\ targets' = <<>>
    /\ pc' = "bfs_loop"
    /\ last' = [op |-> "crawl_html"]
    /\ UNCHANGED <<contents, error_sites, now, site, urls, idx, counter,
                   acquired, fetched, inserted, faults, down>>

\* blog.rs 107-116: the head of the loop; the next batch is selected
CrawlHtmlLoop ==
    /\ pc = "bfs_loop"
    /\ IF new_count >= MAX_NEW_PER_SITE
       THEN /\ pc' = "main" /\ site' = site + 1 /\ targets' = <<>>
            /\ last' = [op |-> "crawl_html_end", stop |-> "cap"]
       ELSE LET batch == next_pending(crawl_queue, PENDING_LIMIT, now)
            IN  IF batch = <<>>
                THEN /\ pc' = "main" /\ site' = site + 1 /\ targets' = <<>>
                     /\ last' = [op |-> "crawl_html_end", stop |-> "empty"]
                ELSE /\ pc' = "bfs_batch" /\ site' = site /\ targets' = batch
                     /\ last' = [op |-> "next_pending", limit |-> PENDING_LIMIT,
                                 result |-> batch]
    /\ UNCHANGED <<dbvars, now, urls, idx, counter, fetched_at, new_count,
                   acquired, fetched, inserted, faults, down>>

\* blog.rs 118-142: one url of the batch is visited
CrawlHtmlVisit ==
    /\ pc = "bfs_batch"
    /\ LET url == Head(targets) IN
       \E presp \in PageAnswers(url) :
          LET p == crawl_page(crawl_queue, url, presp, now)
          IN  \E aresp \in ArticleAnswers(url, ~p.ok \/ should_skip(error_sites, url, now),
                                          Cost(presp)) :
                 LET a == crawl_article(contents, error_sites, url, fetched_at, FALSE, aresp, now)
                     is_new == p.ok /\ a.ret = "Ok(true)"
                     n == IF is_new THEN new_count + p.added ELSE new_count
                 IN  /\ contents' = IF p.ok THEN a.contents ELSE contents
                     /\ error_sites' = IF p.ok THEN a.error_sites ELSE error_sites
                     /\ crawl_queue' = IF p.ok THEN mark_done(p.table, url, now) ELSE crawl_queue
                     /\ new_count' = n
                     /\ targets' = Tail(targets)
                     /\ pc' = IF targets' = <<>> \/ n >= MAX_NEW_PER_SITE THEN "bfs_loop" ELSE pc
                     /\ fetched' = fetched \cup {[url |-> url, via |-> "page"]}
                                     \cup (IF p.ok /\ a.fetch
                                           THEN {[url |-> url, via |-> "article"]} ELSE {})
                     /\ inserted' = IF is_new THEN inserted \cup {url} ELSE inserted
                     /\ faults' = faults + Spent(url, presp) + Spent(url, aresp)
                     /\ last' = [op |-> "visit", url |-> url, page_ok |-> p.ok,
                                 added |-> p.added,
                                 ret |-> IF p.ok THEN a.ret ELSE "none"]
    /\ UNCHANGED <<now, site, urls, idx, counter, fetched_at, acquired, down>>

\* main.rs 37-42: every blog has been visited; the export ends the run
Export ==
    /\ pc = "main"
    /\ site > Len(Blogs)
    /\ pc' = "done"
    /\ last' = [op |-> "export_json"]
    /\ UNCHANGED <<dbvars, now, site, urls, idx, counter, fetched_at, new_count,
                   targets, acquired, fetched, inserted, faults, down>>

\* a day ends between the crawls of two blogs
Elapse ==
    /\ pc = "main"
    /\ now < MaxElapsed
    /\ now' = now + 1
    /\ UNCHANGED <<dbvars, last, crawlvars>>

Next == FetchAndStore \/ SitemapStep \/ CrawlHtmlBegin \/ CrawlHtmlLoop
           \/ CrawlHtmlVisit \/ Export \/ Elapse

Spec == Init /\ [][Next]_vars

(***************************************************************************)
(* The same run against servers that either answer every request or are    *)
(* down for the whole run.  The worker is single-threaded and every await  *)
(* ends (a response, a timeout or an error), so each of its steps is       *)
(* eventually taken.                                                       *)
(***************************************************************************)
Outages == {{}, {U("x", <<>>)}, {U("x", <<"a">>)}, {Sm("1")}}

InitLive ==
    /\ contents = <<>>
    /\ crawl_queue = <<>>
    /\ error_sites = <<>>
    /\ now = 0
    /\ last = [op |-> "init"]
    /\ pc = "main"
    /\ site = 1
    /\ urls = <<>>
    /\ idx = 0
    /\ counter = 0
    /\ fetched_at = to_rfc3339(0)
    /\ new_count = 0
    /\ targets = <<>>
    /\ acquired = <<>>
    /\ fetched = {}
    /\ inserted = {}
    /\ faults = MaxFaults
    /\ down \in Outages

NextLive == FetchAndStore \/ SitemapStep \/ CrawlHtmlBegin \/ CrawlHtmlLoop
               \/ CrawlHtmlVisit \/ Export

SpecLive == InitLive /\ [][NextLive]_vars /\ WF_vars(NextLive)

(***************************************************************************)
(* What the loop over the sitemap URLs has done for the current blog       *)
(***************************************************************************)
SitemapMode == urls # <<>>

NewBefore(i) == Cardinality({j \in 1..(i - 1) : acquired[j].ret = "Ok(true)"})

AllNew == \A i \in DOMAIN acquired : acquired[i].ret = "Ok(true)"

ArticleGets == {f.url : f \in {g \in fetched : g.via = "article"}}

\* the <loc> texts of each body, in document order, as read off the document
LocsOf(body) ==
    CASE body = DocAB  -> <<U("x", <<"a">>), U("x", <<"b">>)>>
      [] body = DocTen -> <<Sm("1"), Sm("2"), Sm("3"), Sm("4"), Sm("5"),
                            Sm("6"), Sm("7"), Sm("8"), Sm("9"), Sm("10")>>
      [] body = DocDup -> <<Sm("1"), Sm("1"), U("x", <<"a">>), Sm("2"),
                            Sm("3"), Sm("4"), Sm("5"), Sm("6")>>
      [] body = DocCut -> <<U("x", <<"a">>)>>
      [] body = DocY   -> <<U("y", <<"r">>)>>
      [] OTHER         -> <<>>

(***************************************************************************)
(* C4: in sitemap mode at most 5 rows are newly inserted for a blog, no    *)
(* URL is handed to crawl_article (or fetched) once 5 insertions have      *)
(* happened, and when every acquisition made was a new insertion exactly   *)
(* the first min(5, n) of the n sitemap URLs were acquired and fetched.    *)
(***************************************************************************)
C4_SitemapCap ==
    SitemapMode =>
        /\ Cardinality(inserted) <= 5
        /\ \A i \in DOMAIN acquired : NewBefore(i) < 5
        /\ ArticleGets \subseteq {acquired[i].url : i \in DOMAIN acquired}
        /\ (pc # "sitemap" /\ AllNew) =>
              /\ Len(acquired) = Min(5, Len(urls))
              /\ inserted = {urls[i] : i \in 1..Len(acquired)}
              /\ ArticleGets = inserted

C4_Witness ==
    /\ Len(urls) = 10
    /\ pc = "main"
    /\ AllNew
    /\ inserted = {Sm("1"), Sm("2"), Sm("3"), Sm("4"), Sm("5")}
    /\ ArticleGets = inserted

(***************************************************************************)
(* C5: in BFS mode at most 5 rows are newly inserted during one crawl_html *)
(* call, and crawl_html does not stop on the limit while fewer than 5 rows *)
(* have been newly inserted.                                               *)
(***************************************************************************)
C5_BfsCap ==
    ~SitemapMode =>
        /\ Cardinality(inserted) <= 5
        /\ (last.op = "crawl_html_end" /\ last.stop = "cap") => Cardinality(inserted) >= 5

(***************************************************************************)
(* C6: a sitemap body with <loc> entries puts the worker in the sitemap    *)
(* loop with exactly those texts in document order; crawl_article is       *)
(* called on them in that order, the calls stop short of the end of the    *)
(* list only when 5 rows have been inserted, and the loop neither enters   *)
(* crawl_html nor changes the crawl_queue.                                 *)
(***************************************************************************)
C6_SitemapPrecedence ==
    /\ [][(last'.op = "fetch_sitemap" /\ last'.resp.kind = "http"
            /\ LocsOf(last'.resp.body) # <<>>)
            => (pc' = "sitemap" /\ urls' = LocsOf(last'.resp.body))]_vars
    /\ [](SitemapMode =>
            /\ Len(acquired) <= Len(urls)
            /\ \A i \in DOMAIN acquired : acquired[i].url = urls[i]
            /\ pc \in {"sitemap", "main", "done"}
            /\ pc # "sitemap" =>
                  (Len(acquired) = Len(urls) \/ Cardinality(inserted) = 5))
    /\ [][pc = "sitemap" => (pc' \in {"sitemap", "main"} /\ crawl_queue' = crawl_queue)]_vars

C6_Witness ==
    /\ pc = "main"
    /\ urls = <<U("x", <<"a">>), U("x", <<"b">>)>>
    /\ Len(acquired) = 2
    /\ crawl_queue # <<>>

(***************************************************************************)
(* C7: a sitemap request that fails, or a body without <loc> entries,      *)
(* sends the blog to crawl_html; crawl_html puts the root on the queue     *)
(* (leaving the queue alone when it is there already) before the first     *)
(* batch is selected, and crawl_article is never called from the sitemap   *)
(* loop for that blog.                                                     *)
(***************************************************************************)
C7_FallbackTrigger ==
    /\ [][(last'.op = "fetch_sitemap"
            /\ (last'.resp.kind = "transport" \/ LocsOf(last'.resp.body) = <<>>))
            => (pc' = "crawl_html" /\ urls' = <<>> /\ acquired' = <<>>)]_vars
    /\ [][pc = "crawl_html" =>
            /\ pc' = "bfs_loop"
            /\ HasUrl(crawl_queue', Blogs[site])
            /\ HasUrl(crawl_queue, Blogs[site]) => crawl_queue' = crawl_queue]_vars
    /\ [](pc \in {"crawl_html", "bfs_loop", "bfs_batch"} => acquired = <<>>)
    /\ [](pc \in {"bfs_loop", "bfs_batch"} => HasUrl(crawl_queue, Blogs[site]))

C7_Witness ==
    /\ pc = "bfs_batch"
    /\ site = 3
    /\ IsDone(crawl_queue, Blogs[1])
    /\ acquired = <<>>

FetchFailed(call) ==
    /\ call.op = "crawl_article"
    /\ call.fetch
    /\ call.resp.kind = "transport" \/ call.resp.code < 200 \/ call.resp.code >= 300

(***************************************************************************)
(* C9: a crawl_article call whose fetch fails returns an error and leaves  *)
(* the contents table alone; a 404 upserts the error record of that url    *)
(* with last_error_at = now and retry_after = now + 7 days and touches no  *)
(* other record; any other status and a transport error leave error_sites  *)
(* unchanged.                                                              *)
(***************************************************************************)
C9_FailedFetch ==
    [][FetchFailed(last') =>
         /\ last'.ret = "Err"
         /\ contents' = contents
         /\ IF last'.resp.kind = "http" /\ last'.resp.code = 404
            THEN /\ HasSite(error_sites', last'.url)
                 /\ ErrorOf(error_sites', last'.url) =
                        [site |-> last'.url, last_error_at |-> to_rfc3339(now),
                         retry_after |-> to_rfc3339(now + 7), error_message |-> Some("404")]
                 /\ \A s \in ApiKeys \ {last'.url} :
                        /\ HasSite(error_sites', s) = HasSite(error_sites, s)
                        /\ HasSite(error_sites, s) => ErrorOf(error_sites', s) = ErrorOf(error_sites, s)
            ELSE error_sites' = error_sites]_vars

C9_Witness ==
    /\ last.op = "crawl_article"
    /\ last.resp = Status(404)
    /\ Len(error_sites) = 2
    /\ ErrorOf(error_sites, last.url).retry_after = to_rfc3339(now + 7)
    /\ now > 1
    /\ contents # <<>>

InWindow(e, u, t) == HasSite(e, u) /\ t < ErrorOf(e, u).retry_after.local

(***************************************************************************)
(* C10: a crawl_article call with ignore_skip = false on a url inside its  *)
(* backoff window issues no GET, returns Ok(false) and leaves the three    *)
(* tables unchanged; a call with ignore_skip = true always issues the GET. *)
(***************************************************************************)
C10_BackoffSkip ==
    [][last'.op = "crawl_article" =>
         /\ (~last'.ignore_skip /\ InWindow(error_sites, last'.url, now)) =>
               /\ ~last'.fetch
               /\ last'.ret = "Ok(false)"
               /\ dbvars' = dbvars
               /\ fetched' = fetched
         /\ last'.ignore_skip =>
               /\ last'.fetch
               /\ [url |-> last'.url, via |-> "article"] \in fetched']_vars

C10_Witness ==
    /\ last.op = "crawl_article"
    /\ ~last.ignore_skip
    /\ ~last.fetch
    /\ InWindow(error_sites, last.url, now)
    /\ now = RETRY_DAYS - 1
    /\ ~HasId(contents, last.url)

\* u's page was requested by this crawl_html call and the request failed:
\* crawl_page answered Err, so the entry was not marked done
PageFailed(u) ==
    /\ [url |-> u, via |-> "page"] \in fetched
    /\ HasUrl(crawl_queue, u)
    /\ EntryOf(crawl_queue, u).status = "pending"

(***************************************************************************)
(* C11: within one crawl_html call, a queue URL whose page fetch failed is  *)
(* not selected and fetched again by a later next_pending batch.            *)
(***************************************************************************)
C11_NoRetryInRun ==
    [][(pc = "bfs_batch" /\ last'.op = "visit") => ~PageFailed(last'.url)]_vars

(***************************************************************************)
(* C12: whatever fetches fail, including pages that fail on every attempt,  *)
(* every configured blog is eventually processed and the run eventually     *)
(* reaches the export step.                                                 *)
(***************************************************************************)
C12_ReachesExport == <>(pc = "done" /\ site > Len(Blogs))

\* the rows of q2 that q does not hold
Created(q, q2) == {q2[i] : i \in (Len(q) + 1)..Len(q2)}

(***************************************************************************)
(* C13: every queue entry created by crawl_page has the page as parent_url  *)
(* and a URL of the page's domain; a link of another domain or one that     *)
(* cannot be parsed is never enqueued; the returned count is the number of  *)
(* rows the call created.                                                   *)
(***************************************************************************)
C13_SameDomainOnly ==
    [][IsCall("crawl_page") =>
         /\ SubSeq(crawl_queue', 1, Len(crawl_queue)) = crawl_queue
         /\ last'.added = Len(crawl_queue') - Len(crawl_queue)
         /\ \A row \in Created(crawl_queue, crawl_queue') :
               /\ row.parent_url = Some(last'.url)
               /\ UrlParse(row.url) # None
               /\ row.url.host # ""
               /\ row.url.host = last'.url.host]_vars

\* the record register_error(.., s, message, retry_days) writes at time t
ErrorRecord(s, message, retry_days, t) ==
    [site |-> s, last_error_at |-> to_rfc3339(t),
     retry_after |-> to_rfc3339(t + retry_days), error_message |-> Some(message)]

\* the records of e as a set, whatever their rowids
Records(e) == {e[i] : i \in DOMAIN e}

(***************************************************************************)
(* C14: error_sites holds at most one record per site; after register_error *)
(* the record of that site carries last_error_at, retry_after and           *)
(* error_message of this call and the other records are as before;          *)
(* should_skip and the passing of time leave the table as it is, so a       *)
(* lapsed record stays until a register_error overwrites it.                *)
(***************************************************************************)
C14_Upsert ==
    /\ [](\A i, j \in DOMAIN error_sites :
            error_sites[i].site = error_sites[j].site => i = j)
    /\ [][IF last'.op = "register_error"
           THEN /\ HasSite(error_sites', last'.site)
                /\ ErrorOf(error_sites', last'.site)
                      = ErrorRecord(last'.site, last'.message, last'.retry_days, now)
                /\ {r \in Records(error_sites') : r.site # last'.site}
                      = {r \in Records(error_sites) : r.site # last'.site}
           ELSE error_sites' = error_sites]_vars

\* should_skip has answered false on a lapsed record, written by a
\* register_error after the first day, and the record is still in the table
C14_Witness ==
    /\ last.op = "should_skip"
    /\ ~last.ret
    /\ Len(error_sites) = 2
    /\ HasSite(error_sites, last.site)
    /\ parse_from_rfc3339(ErrorOf(error_sites, last.site).retry_after) <= now
    /\ ErrorOf(error_sites, last.site).last_error_at.local >= 1
    /\ ErrorOf(error_sites, last.site).error_message = Some("500")

(***************************************************************************)
(* C15: in the sitemap loop the counter goes up by one exactly when the     *)
(* acquisition inserted a new row; an acquisition that inserted nothing     *)
(* (already stored, skipped by the backoff, failed) leaves the counter and  *)
(* the scan goes on with the next URL; the loop ends only when the counter  *)
(* has reached 5 or the list is exhausted.                                  *)
(***************************************************************************)
C15_OnlyNewCounts ==
    [][pc = "sitemap" =>
         /\ (last'.ret = "Ok(true)") <=> (Len(contents') = Len(contents) + 1)
         /\ (last'.ret # "Ok(true)") => contents' = contents
         /\ counter' = (IF last'.ret = "Ok(true)" THEN counter + 1 ELSE counter)
         /\ IF counter' >= 5 \/ idx = Len(urls)
            THEN pc' = "main"
            ELSE pc' = "sitemap" /\ idx' = idx + 1 /\ urls' = urls]_vars

\* a scan whose first URL failed with 404 and whose second URL, the same
\* one, was skipped by the backoff, and which went on to its fifth insertion
C15_Witness ==
    /\ SitemapMode
    /\ pc = "main"
    /\ counter = 5
    /\ Len(acquired) = 7
    /\ acquired[1].ret = "Err"
    /\ acquired[2].ret = "Ok(false)"
    /\ acquired[2].url = acquired[1].url
    /\ [url |-> acquired[7].url, via |-> "article"] \in fetched

\* URLs the queue may or may not hold
QueueUrls == ApiUrls \cup {Blogs[i] : i \in DOMAIN Blogs} \cup {U("x", <<"b">>), U("y", <<"r">>)}

(***************************************************************************)
(* C16: in crawl_html a dequeued URL is marked done exactly when its        *)
(* crawl_page call succeeded, whatever crawl_article returned afterwards;   *)
(* when crawl_page fails the queue is left as it was and the entry stays    *)
(* pending; the other entries keep their status; mark_done on a URL that    *)
(* is not in the queue changes nothing.                                     *)
(***************************************************************************)
C16_DoneIffPageOk ==
    /\ [][pc = "bfs_batch" =>
            /\ last'.op = "visit"
            /\ last'.url = Head(targets)
            /\ ~IsDone(crawl_queue, last'.url)
            /\ IF last'.page_ok
               THEN IsDone(crawl_queue', last'.url)
               ELSE crawl_queue' = crawl_queue
            /\ \A i \in DOMAIN crawl_queue :
                  crawl_queue[i].url # last'.url => crawl_queue'[i] = crawl_queue[i]]_vars
    /\ [](\A u \in QueueUrls :
            ~HasUrl(crawl_queue, u) => mark_done(crawl_queue, u, now) = crawl_queue)

\* the page of a pending entry was fetched, the acquisition that followed
\* failed, and the entry is done; another URL is not yet in the queue
C16_Witness ==
    /\ last.op = "visit"
    /\ last.page_ok
    /\ last.ret = "Err"
    /\ IsDone(crawl_queue, last.url)
    /\ \E u \in QueueUrls : ~HasUrl(crawl_queue, u)

(***************************************************************************)
(* C17: contents is append-only: no step of a run removes a row or changes  *)
(* a field of a stored row; a URL acquired again later, with another        *)
(* fetched_at, keeps the fetched_at of its first insert.                    *)
(***************************************************************************)
C17_AppendOnly ==
    [][/\ Len(contents') >= Len(contents)
       /\ \A i \in DOMAIN contents : contents'[i] = contents[i]]_vars

\* a stored URL has been fetched again by a crawl started a day later and
\* its row still carries the first fetched_at
C17_Witness ==
    /\ last.op = "crawl_article"
    /\ last.fetch
    /\ last.ret = "Ok(false)"
    /\ HasId(contents, last.url)
    /\ fetched_at = to_rfc3339(1)
    /\ RowOf(contents, last.url).fetched_at = to_rfc3339(0)

\* no entry of q would be returned by next_pending at time t
NothingDue(q, t) == \A i \in DOMAIN q : ~Selected(q[i], t)

(***************************************************************************)
(* C18: when every page fetch succeeds, each crawl_html call terminates,    *)
(* and at its termination new_count has reached the limit or the queue      *)
(* holds no pending entry that is due.                                      *)
(***************************************************************************)
C18_BfsTerminates ==
    /\ (down = {}) => ((pc = "crawl_html") ~> (last.op = "crawl_html_end"))
    /\ [](last.op = "crawl_html_end" =>
            \/ new_count >= MAX_NEW_PER_SITE
            \/ NothingDue(crawl_queue, now))

\* a crawl_html call that fetched every page has ended on an empty batch
C18_Witness ==
    /\ down = {}
    /\ last.op = "crawl_html_end"
    /\ last.stop = "empty"
    /\ new_count < MAX_NEW_PER_SITE
    /\ Len(crawl_queue) >= 2
    /\ \A i \in DOMAIN crawl_queue : crawl_queue[i].status = "done"

(***************************************************************************)
(* C19: during the crawl_html call of a blog every URL that is dequeued and *)
(* fetched has the domain of that blog's base URL, also when the queue      *)
(* still holds pending entries left by the crawl of another blog.           *)
(***************************************************************************)
C19_OwnDomainOnly ==
    last.op = "visit" =>
        /\ domain(last.url) = domain(Blogs[site])
        /\ last.url.host = Blogs[site].host

\* the encoding the priority order names for a response: the header label
\* when it is known, else the first label in the head of the body when it
\* is known, else the guess of the detector
Picked(headers, bytes) ==
    LET h == header_charset(headers)
        m == meta_charset(bytes)
    IN  IF h # None /\ for_label(trim(h[1])) # None THEN for_label(trim(h[1]))[1]
        ELSE IF m # None /\ for_label(m[1]) # None THEN for_label(m[1])[1]
        ELSE bytes.guess

====
